---- MODULE Spec2Model ----
(***************************************************************************)
(* Brick lifecycle of heketi's command executor                            *)
(* (executors/cmdexec/brick.go): BrickCreate, BrickDestroy and the host    *)
(* they drive through remote commands.                                     *)
(*                                                                         *)
(* Text (paths, names, table lines, command output, error messages) is a   *)
(* sequence of one-character strings, so that the substring, prefix and    *)
(* lower-casing tests of the code are computed, not assumed.               *)
(***************************************************************************)
EXTENDS Integers, Sequences, FiniteSets, TLC

(* ----------------------------- bounds --------------------------------- *)
\* operations (create / destroy calls) started in one history
MaxOps == 3
\* remote commands that fail for an outside reason (timeout, transport)
MaxFaults == 1
\* manager crashes in one history
MaxCrashes == 1

(* ------------------------------ text ---------------------------------- *)
StrDevMapper == <<"/","d","e","v","/","m","a","p","p","e","r","/">>
StrVgPrefix == <<"v","g","_">>
StrBrickPrefix == <<"b","r","i","c","k","_">>
StrFstabOpts == <<" ","x","f","s"," ","r","w",",","i","n","o","d","e","6","4",",","n","o","a","t","i","m","e",",","n","o","u","u","i","d"," ","0"," ","0">>
StrMode == <<"2","7","7","5">>
StrRunGluster == <<"/","r","u","n","/","g","l","u","s","t","e","r","/">>
StrVarRunGluster == <<"/","v","a","r","/","r","u","n","/","g","l","u","s","t","e","r","/">>
StrMountOn == <<" ","o","n"," ">>
StrMountType == <<" ","t","y","p","e"," ","x","f","s"," ","(","r","w",",","i","n","o","d","e","6","4",",","n","o","a","t","i","m","e",",","n","o","u","u","i","d",")">>
StrNotFound == <<"n","o","t"," ","f","o","u","n","d">>
StrFailedToFind == <<"f","a","i","l","e","d"," ","t","o"," ","f","i","n","d">>
\* messages of the remote tools
MsgLvAbsent == <<"F","a","i","l","e","d"," ","t","o"," ","f","i","n","d"," ","l","o","g","i","c","a","l"," ","v","o","l","u","m","e">>
MsgInUse == <<"c","o","n","t","a","i","n","s"," ","a"," ","f","i","l","e","s","y","s","t","e","m"," ","i","n"," ","u","s","e">>
MsgExists == <<"a","l","r","e","a","d","y"," ","e","x","i","s","t","s">>
MsgNotMounted == <<"n","o","t"," ","m","o","u","n","t","e","d">>
MsgBusy == <<"t","a","r","g","e","t"," ","i","s"," ","b","u","s","y">>
MsgNoDevice == <<"N","o"," ","s","u","c","h"," ","f","i","l","e"," ","o","r"," ","d","i","r","e","c","t","o","r","y">>
MsgBadArg == <<"i","n","v","a","l","i","d"," ","a","r","g","u","m","e","n","t">>
MsgTimeout == <<"t","i","m","e","o","u","t">>
MsgCountPrefix == <<"U","n","a","b","l","e"," ","t","o"," ","d","e","t","e","r","m","i","n","e"," ","n","u","m","b","e","r"," ","o","f"," ","l","o","g","i","c","a","l"," ","v","o","l","u","m","e","s"," ","i","n"," ","t","h","i","n"," ","p","o","o","l"," ">>
MsgOnHost == <<" ","o","n"," ","h","o","s","t"," ">>
MsgConvertPrefix == <<"F","a","i","l","e","d"," ","t","o"," ","c","o","n","v","e","r","t"," ","n","u","m","b","e","r"," ","o","f"," ","l","o","g","i","c","a","l"," ","v","o","l","u","m","e","s"," ","i","n"," ","t","h","i","n"," ","p","o","o","l"," ">>
MsgStatusPrefix == <<"U","n","a","b","l","e"," ","t","o"," ","g","e","t"," ","m","o","u","n","t"," ","s","t","a","t","u","s"," ","f","o","r"," ","b","r","i","c","k","s"," ",":"," ">>
MsgAtoi == <<":"," ","s","t","r","c","o","n","v",".","A","t","o","i",":"," ","p","a","r","s","i","n","g"," ">>
MsgSyntax == <<":"," ","i","n","v","a","l","i","d"," ","s","y","n","t","a","x">>

\* strings.Contains(s, t)
Contains(s, t) ==
    \E i \in 0..(Len(s) - Len(t)) : SubSeq(s, i + 1, i + Len(t)) = t

\* strings.HasPrefix(s, p)
HasPrefix(s, p) == Len(s) >= Len(p) /\ SubSeq(s, 1, Len(p)) = p

\* strings.ToLower, one character
LowerChar(c) ==
    CASE c = "F" -> "f" [] c = "N" -> "n" [] c = "U" -> "u" [] OTHER -> c

\* strings.ToLower
ToLower(s) == [i \in 1..Len(s) |-> LowerChar(s[i])]

\* strings.TrimSpace
TrimSpace(s) ==
    LET keep == {i \in 1..Len(s) : s[i] \notin {" ", "\n", "\t"}}
    IN  IF keep = {} THEN <<>>
        ELSE SubSeq(s, CHOOSE i \in keep : \A j \in keep : i <= j,
                       CHOOSE i \in keep : \A j \in keep : i >= j)

Digits == <<"0","1","2","3","4","5","6","7","8","9">>

DigitVal(c) == (CHOOSE d \in 1..10 : Digits[d] = c) - 1

\* strconv.Atoi succeeds on a non-empty run of digits
AtoiOk(s) == Len(s) > 0 /\ \A i \in 1..Len(s) : \E d \in 1..10 : Digits[d] = s[i]

RECURSIVE AtoiVal(_)
AtoiVal(s) ==
    IF Len(s) = 0 THEN 0
    ELSE 10 * AtoiVal(SubSeq(s, 1, Len(s) - 1)) + DigitVal(s[Len(s)])

\* the decimal text of a small count, as lvs prints it
RECURSIVE Itoa(_)
Itoa(n) == IF n < 10 THEN <<Digits[n + 1]>> ELSE Itoa(n \div 10) \o <<Digits[(n % 10) + 1]>>

\* the white space strings.Fields and strings.TrimSpace cut at
IsSpace(c) == c \in {" ", "\t", "\n"}

\* strings.Split(s, "\n")
RECURSIVE SplitLines(_)
SplitLines(s) ==
    LET nl == {i \in 1..Len(s) : s[i] = "\n"}
    IN  IF nl = {} THEN <<s>>
        ELSE LET k == CHOOSE i \in nl : \A j \in nl : i <= j
             IN  <<SubSeq(s, 1, k - 1)>> \o SplitLines(SubSeq(s, k + 1, Len(s)))

\* strings.Fields
RECURSIVE Fields(_)
Fields(s) ==
    IF s = <<>> THEN <<>>
    ELSE IF IsSpace(Head(s)) THEN Fields(Tail(s))
    ELSE LET sp == {i \in 1..Len(s) : IsSpace(s[i])}
             n  == IF sp = {} THEN Len(s) ELSE (CHOOSE i \in sp : \A j \in sp : i <= j) - 1
         IN  <<SubSeq(s, 1, n)>> \o Fields(SubSeq(s, n + 1, Len(s)))

(* ------------------------- path derivation ---------------------------- *)
\* paths.VgIdToName
VgIdToName(vgId) == StrVgPrefix \o vgId

\* paths.BrickIdToName
BrickIdToName(name) == StrBrickPrefix \o name

\* the device node of logical volume lv of volume group vg
DevNodeOf(vg, lv) == StrDevMapper \o vg \o <<"-">> \o lv

\* paths.BrickDevNode
BrickDevNode(vgId, name) == DevNodeOf(VgIdToName(vgId), BrickIdToName(name))

\* the parent directory of a path
Parent(p) ==
    LET sl == {i \in 1..Len(p) : p[i] = "/"}
    IN  IF sl = {} THEN <<>>
        ELSE SubSeq(p, 1, (CHOOSE i \in sl : \A j \in sl : i >= j) - 1)

\* paths.BrickMountFromPath
BrickMountFromPath(brickPath) == Parent(brickPath)

(* ---------------------------- requests -------------------------------- *)
Host == <<"n","1">>
Fstab == <<"/","e","t","c","/","f","s","t","a","b">>

\* an ordinary call: the executors.BrickRequest, with the host argument and the
\* executor's Fstab setting it is made with
Request1 ==
    [Name |-> <<"a">>, LvName |-> <<"b","r","i","c","k","_","a">>, TpName |-> <<"t","p">>,
     VgId |-> <<"v">>, Path |-> <<"/","m","/","a","/","b">>, Gid |-> 0, Size |-> 1, TpSize |-> 1,
     Nil |-> FALSE, Host |-> Host, Fstab |-> Fstab]

\* the calls the operations are made with
Requests == <<
    \* 1: an ordinary brick, its pool of the size of the brick
    Request1,
    \* 2: a brick whose name and mount path extend those of 1
    [Request1 EXCEPT !.Name = <<"a","b">>, !.LvName = <<"b","r","i","c","k","_","a","b">>,
                     !.TpName = <<"t","q">>, !.Path = <<"/","m","/","a","b","/","b">>,
                     !.Gid = 2, !.TpSize = 2],
    \* 3: a brick under /run/gluster/, its pool named as that of 1
    [Request1 EXCEPT !.Name = <<"c">>, !.LvName = <<"b","r","i","c","k","_","c">>,
                     !.Path = StrRunGluster \o <<"c","/","b">>],
    \* 4: no logical-volume name
    [Request1 EXCEPT !.Name = <<"d">>, !.LvName = <<>>, !.TpName = <<"t","r">>,
                     !.Path = <<"/","m","/","d","/","b">>],
    \* 5: brick 1 named by its mount path
    [Request1 EXCEPT !.Path = <<"/","m","/","a">>],
    \* 6: a nil request
    [Request1 EXCEPT !.Nil = TRUE],
    \* 7: no host
    [Request1 EXCEPT !.Host = <<>>],
    \* 8: no name
    [Request1 EXCEPT !.Name = <<>>],
    \* 9: size zero
    [Request1 EXCEPT !.Size = 0, !.TpSize = 0],
    \* 10: a pool smaller than the brick
    [Request1 EXCEPT !.Size = 2],
    \* 11: no volume group
    [Request1 EXCEPT !.VgId = <<>>],
    \* 12: no path
    [Request1 EXCEPT !.Path = <<>>],
    \* 13: no Fstab setting
    [Request1 EXCEPT !.Fstab = <<>>],
    \* 14: a brick whose logical volume is not named after the brick
    [Request1 EXCEPT !.Name = <<"e">>, !.LvName = <<"x">>, !.TpName = <<"t","s">>,
                     !.Path = <<"/","m","/","e","/","b">>],
    \* 15: a brick whose TpName is the logical volume of brick 1, not a pool
    [Request1 EXCEPT !.Name = <<"f">>, !.LvName = <<"b","r","i","c","k","_","f">>,
                     !.TpName = <<"b","r","i","c","k","_","a">>,
                     !.Path = <<"/","m","/","f">>],
    \* 16: another ordinary brick, with a pool of its own
    [Request1 EXCEPT !.Name = <<"g">>, !.LvName = <<"b","r","i","c","k","_","g">>,
                     !.TpName = <<"t","g">>, !.Path = <<"/","m","/","g","/","b">>]
>>

\* the requests BrickCreate is called with: Path names the data directory
CreateRequests == {1, 2, 3, 4}
\* the requests BrickDestroy is called with
DestroyRequests == {1, 2, 3, 4, 5}
\* the requests that break one of BrickCreate's Require checks each
BadRequests == {6, 7, 8, 9, 10, 11, 12, 13}

(* ------------------------------ errors -------------------------------- *)
\* a Go error value: nil, or an error with its message
NilErr == [isErr |-> FALSE, msg |-> <<>>]
Err(m) == [isErr |-> TRUE, msg |-> m]

\* a variant that takes no error for "not found"
errIsLvNotFound_Never(err) == FALSE

\* a variant that takes every error for "not found"
errIsLvNotFound_AnyError(err) == err.isErr

\* errIsLvNotFound
errIsLvNotFound(err) ==
    IF ~err.isErr THEN FALSE
    ELSE LET e == ToLower(err.msg)
         IN  Contains(e, StrNotFound) \/ Contains(e, StrFailedToFind)

(* ------------------------------- host --------------------------------- *)
(* The node the commands run on: the persistent mount table (lines, in    *)
(* file order), the live mount list (in mount order), the thin logical    *)
(* volumes with their file systems, the thin pools, the directories of    *)
(* the root file system, and the mount points that processes keep open.   *)
EmptyHost ==
    [fstab |-> <<>>, mounts |-> <<>>, lvs |-> {}, pools |-> {}, dirs |-> {}, busy |-> {}]

\* the outcome of one remote command: the host after it, its status and output
Res(h, ok, out) == [h |-> h, ok |-> ok, out |-> out]

MountSet(h) == {h.mounts[i] : i \in 1..Len(h.mounts)}

LvByDev(h, dev) == {l \in h.lvs : DevNodeOf(l.vg, l.lv) = dev}

IsMountedDev(h, dev) == \E m \in MountSet(h) : m.dev = dev

\* the mounts whose file system holds path p (p lies below the mount point)
MountsOver(h, p) == {m \in MountSet(h) : HasPrefix(p, m.mp \o <<"/">>)}

\* the logical volume whose file system holds p, when p lies below a mount
FsOf(h, p) ==
    LET m == CHOOSE m \in MountsOver(h, p) : TRUE
    IN  CHOOSE l \in h.lvs : DevNodeOf(l.vg, l.lv) = m.dev

DirExists(h, p) ==
    IF MountsOver(h, p) # {} THEN p \in FsOf(h, p).data ELSE p \in h.dirs

AddDir(h, p) ==
    IF MountsOver(h, p) # {}
    THEN LET l == FsOf(h, p)
         IN  [h EXCEPT !.lvs = (@ \ {l}) \cup {[l EXCEPT !.data = @ \cup {p}]}]
    ELSE [h EXCEPT !.dirs = @ \cup {p}]

DelDir(h, p) ==
    IF MountsOver(h, p) # {}
    THEN LET l == FsOf(h, p)
         IN  [h EXCEPT !.lvs = (@ \ {l}) \cup {[l EXCEPT !.data = @ \ {p}]}]
    ELSE [h EXCEPT !.dirs = @ \ {p}]

\* mkdir -p <path>
RunMkdirP(h, p) == Res(AddDir(h, p), TRUE, <<>>)

\* mkdir <path>
RunMkdir(h, p) ==
    IF DirExists(h, p) THEN Res(h, FALSE, MsgExists)
    ELSE IF ~(\E m \in MountSet(h) : m.mp = Parent(p)) /\ ~DirExists(h, Parent(p))
         THEN Res(h, FALSE, MsgNoDevice)
         ELSE Res(AddDir(h, p), TRUE, <<>>)

\* chown / chmod <path>
RunChange(h, p) ==
    IF DirExists(h, p) THEN Res(h, TRUE, <<>>) ELSE Res(h, FALSE, MsgNoDevice)

\* rmdir <path>
RunRmdir(h, p) ==
    IF ~DirExists(h, p) THEN Res(h, FALSE, MsgNoDevice)
    ELSE IF \/ \E m \in MountSet(h) : m.mp = p
            \/ \E d \in h.dirs : HasPrefix(d, p \o <<"/">>)
         THEN Res(h, FALSE, MsgInUse)
         ELSE Res(DelDir(h, p), TRUE, <<>>)

\* lvcreate --thin <vg>/<tp> --size .. --virtualsize .. --name <lv>:
\* makes the pool and one thin volume in it
RunLvCreate(h, vg, tp, lv) ==
    IF lv = <<>> \/ tp = <<>> THEN Res(h, FALSE, MsgBadArg)
    ELSE IF \/ \E l \in h.lvs : l.vg = vg /\ l.lv \in {lv, tp}
            \/ \E q \in h.pools : q.vg = vg /\ q.tp \in {lv, tp}
         THEN Res(h, FALSE, MsgExists)
         ELSE Res([h EXCEPT !.pools = @ \cup {[vg |-> vg, tp |-> tp]},
                            !.lvs = @ \cup {[vg |-> vg, lv |-> lv, pool |-> tp,
                                             fmt |-> FALSE, data |-> {}]}],
                  TRUE, <<>>)

\* mkfs.xfs <devnode>
RunMkfs(h, dev) ==
    IF LvByDev(h, dev) = {} THEN Res(h, FALSE, MsgNoDevice)
    ELSE LET l == CHOOSE l \in LvByDev(h, dev) : TRUE
         IN  IF l.fmt \/ IsMountedDev(h, dev) THEN Res(h, FALSE, MsgExists)
             ELSE Res([h EXCEPT !.lvs = (@ \ {l}) \cup {[l EXCEPT !.fmt = TRUE]}],
                      TRUE, <<>>)

\* the line BrickCreate appends to the persistent mount table
FstabLine(dev, mp) == dev \o <<" ">> \o mp \o StrFstabOpts

\* awk "BEGIN {print \"<line>\" >> \"<fstab>\"}"
RunFstabAppend(h, line) == Res([h EXCEPT !.fstab = Append(@, line)], TRUE, <<>>)

\* mount -o .. <devnode> <mountPath>
RunMount(h, dev, mp) ==
    IF LvByDev(h, dev) = {} \/ ~DirExists(h, mp) THEN Res(h, FALSE, MsgNoDevice)
    ELSE IF ~(CHOOSE l \in LvByDev(h, dev) : TRUE).fmt THEN Res(h, FALSE, MsgBadArg)
    ELSE IF [dev |-> dev, mp |-> mp] \in MountSet(h) THEN Res(h, FALSE, MsgExists)
    ELSE Res([h EXCEPT !.mounts = Append(@, [dev |-> dev, mp |-> mp])], TRUE, <<>>)

\* umount <path>: only a mount point (or a mounted device) can be unmounted,
\* and only when no process keeps it open
RunUmount(h, p) ==
    LET hit == {i \in 1..Len(h.mounts) : h.mounts[i].mp = p \/ h.mounts[i].dev = p}
    IN  IF hit = {} THEN Res(h, FALSE, MsgNotMounted)
        ELSE IF \E i \in hit : h.mounts[i].mp \in h.busy THEN Res(h, FALSE, MsgBusy)
        ELSE LET k == CHOOSE i \in hit : \A j \in hit : i >= j
             IN  Res([h EXCEPT !.mounts = SubSeq(@, 1, k - 1) \o SubSeq(@, k + 1, Len(@))],
                     TRUE, <<>>)

\* one line of the output of mount
MountLine(m) == m.dev \o StrMountOn \o m.mp \o StrMountType \o <<"\n">>

RECURSIVE MountText(_)
MountText(ms) == IF ms = <<>> THEN <<>> ELSE MountLine(Head(ms)) \o MountText(Tail(ms))

\* mount (no arguments): the live mount list
RunMountList(h) == Res(h, TRUE, MountText(h.mounts))

\* sed -i.save "/<pattern>/d" <fstab>: drops every line the pattern occurs in
RunSedDelete(h, pat) ==
    LET Keep(line) == ~Contains(line, pat)
    IN  Res([h EXCEPT !.fstab = SelectSeq(@, Keep)], TRUE, <<>>)

\* lvremove -f <vg>/<name>: a thin volume, or a pool with the volumes in it
RunLvRemove(h, vg, name) ==
    IF \E l \in h.lvs : l.vg = vg /\ l.lv = name
    THEN LET l == CHOOSE l \in h.lvs : l.vg = vg /\ l.lv = name
         IN  IF IsMountedDev(h, DevNodeOf(vg, name)) THEN Res(h, FALSE, MsgInUse)
             ELSE Res([h EXCEPT !.lvs = @ \ {l}], TRUE, <<>>)
    ELSE IF [vg |-> vg, tp |-> name] \in h.pools
    THEN LET inside == {l \in h.lvs : l.vg = vg /\ l.pool = name}
         IN  IF \E l \in inside : IsMountedDev(h, DevNodeOf(l.vg, l.lv))
             THEN Res(h, FALSE, MsgInUse)
             ELSE Res([h EXCEPT !.lvs = @ \ inside, !.pools = @ \ {[vg |-> vg, tp |-> name]}],
                      TRUE, <<>>)
    ELSE Res(h, FALSE, MsgLvAbsent)

\* lvs --noheadings --options=thin_count <vg>/<name>
RunLvsThinCount(h, vg, name) ==
    IF [vg |-> vg, tp |-> name] \in h.pools
    THEN Res(h, TRUE, <<" ", " ">> \o
             Itoa(Cardinality({l \in h.lvs : l.vg = vg /\ l.pool = name})) \o <<"\n">>)
    ELSE IF \E l \in h.lvs : l.vg = vg /\ l.lv = name
    THEN Res(h, TRUE, <<" ", " ">> \o <<"\n">>)
    ELSE Res(h, FALSE, MsgLvAbsent)

(* ----------------------------- commands -------------------------------- *)
Cmd(c, x, y, z) == [c |-> c, x |-> x, y |-> y, z |-> z]

\* what a remote command does on the host
Run(h, cmd) ==
    CASE cmd.c = "mkdirp"     -> RunMkdirP(h, cmd.x)
      [] cmd.c = "lvcreate"   -> RunLvCreate(h, cmd.x, cmd.y, cmd.z)
      [] cmd.c = "mkfs"       -> RunMkfs(h, cmd.x)
      [] cmd.c = "fstab"      -> RunFstabAppend(h, FstabLine(cmd.x, cmd.y))
      [] cmd.c = "mount"      -> RunMount(h, cmd.x, cmd.y)
      [] cmd.c = "mkdir"      -> RunMkdir(h, cmd.x)
      [] cmd.c = "chown"      -> RunChange(h, cmd.x)
      [] cmd.c = "chmod"      -> RunChange(h, cmd.x)
      [] cmd.c = "umount"     -> RunUmount(h, cmd.x)
      [] cmd.c = "mountlist"  -> RunMountList(h)
      [] cmd.c = "sed"        -> RunSedDelete(h, cmd.x)
      [] cmd.c = "lvremove"   -> RunLvRemove(h, cmd.x, cmd.y)
      [] cmd.c = "poolremove" -> RunLvRemove(h, cmd.x, cmd.y)
      [] cmd.c = "lvs"        -> RunLvsThinCount(h, cmd.x, cmd.y)
      [] cmd.c = "rmdir"      -> RunRmdir(h, cmd.x)

\* RemoteExecutor.ExecCommands for one command: the command runs, or (fault)
\* fails for an outside reason, a timeout or a transport error, and leaves the
\* host as it was
ExecCommands(h, cmd, fault) ==
    IF fault THEN Res(h, FALSE, MsgTimeout) ELSE Run(h, cmd)

\* rex.AnyError of one result
AnyError(res) == IF res.ok THEN NilErr ELSE Err(res.out)

\* a variant that mounts before it writes the table line
CreateCommands_MountFirst(brick) ==
    LET brickPath == brick.Path
        mountPath == BrickMountFromPath(brickPath)
        devnode   == BrickDevNode(brick.VgId, brick.Name)
        commands  == << Cmd("mkdirp", mountPath, <<>>, <<>>),
                        Cmd("lvcreate", VgIdToName(brick.VgId), brick.TpName, brick.LvName),
                        Cmd("mkfs", devnode, <<>>, <<>>),
                        Cmd("mount", devnode, mountPath, <<>>),
                        Cmd("fstab", devnode, mountPath, <<>>),
                        Cmd("mkdir", brickPath, <<>>, <<>>) >>
    IN  IF 0 # brick.Gid
        THEN commands \o << Cmd("chown", brickPath, <<":">> \o Itoa(brick.Gid), <<>>),
                            Cmd("chmod", brickPath, StrMode, <<>>) >>
        ELSE commands

\* BrickCreate, the command list it builds
CreateCommands(brick) ==
    LET brickPath == brick.Path
        mountPath == BrickMountFromPath(brickPath)
        devnode   == BrickDevNode(brick.VgId, brick.Name)
        commands  == << Cmd("mkdirp", mountPath, <<>>, <<>>),
                        Cmd("lvcreate", VgIdToName(brick.VgId), brick.TpName, brick.LvName),
                        Cmd("mkfs", devnode, <<>>, <<>>),
                        Cmd("fstab", devnode, mountPath, <<>>),
                        Cmd("mount", devnode, mountPath, <<>>),
                        Cmd("mkdir", brickPath, <<>>, <<>>) >>
    IN  IF 0 # brick.Gid
        THEN commands \o << Cmd("chown", brickPath, <<":">> \o Itoa(brick.Gid), <<>>),
                            Cmd("chmod", brickPath, StrMode, <<>>) >>
        ELSE commands

\* a variant that wants the pool larger than the brick
CreateRequire_TpLarger(brick) ==
    /\ ~brick.Nil
    /\ brick.Host # <<>>
    /\ brick.Name # <<>>
    /\ brick.Size > 0
    /\ brick.TpSize > brick.Size
    /\ brick.VgId # <<>>
    /\ brick.Path # <<>>
    /\ brick.Fstab # <<>>

\* BrickCreate, its godbc.Require checks
CreateRequire(brick) ==
    /\ ~brick.Nil
    /\ brick.Host # <<>>
    /\ brick.Name # <<>>
    /\ brick.Size > 0
    /\ brick.TpSize >= brick.Size
    /\ brick.VgId # <<>>
    /\ brick.Path # <<>>
    /\ brick.Fstab # <<>>

\* BrickDestroy, its godbc.Require checks
DestroyRequire(brick) ==
    /\ ~brick.Nil
    /\ brick.Host # <<>>
    /\ brick.Name # <<>>
    /\ brick.VgId # <<>>
    /\ brick.Path # <<>>
    /\ brick.TpName # <<>>
    /\ brick.LvName # <<>>

\* a variant that takes every path for exempt
IsExemptPath_All(path) == TRUE

\* removeBrickFromFstab, its test of the exempt paths
IsExemptPath(path) == HasPrefix(path, StrRunGluster) \/ HasPrefix(path, StrVarRunGluster)

(* ------------------------------ state --------------------------------- *)
VARIABLES
    host,      \* the node
    op,        \* per worker: the call in progress and its local variables
    ret,       \* what the last finished call returned
    prevRet,   \* what the call before it returned
    nOps,      \* calls started
    nFaults,   \* commands failed for an outside reason
    nCrashes   \* manager crashes

vars == <<host, op, ret, prevRet, nOps, nFaults, nCrashes>>

Workers == {"w1", "w2"}
\* the workers that issue calls when calls do not overlap
SeqWorkers == {"w1"}

\* nothing on the host belongs to the brick of this request
BrickAbsent(h, brick) ==
    LET vg  == VgIdToName(brick.VgId)
        dev == BrickDevNode(brick.VgId, brick.Name)
        mp  == BrickMountFromPath(brick.Path)
    IN  /\ ~\E m \in MountSet(h) : m.dev = dev \/ m.mp = mp
        /\ ~\E i \in 1..Len(h.fstab) : HasPrefix(h.fstab[i], dev \o <<" ">>)
        /\ ~\E l \in h.lvs : l.vg = vg /\ l.lv = brick.LvName
        /\ [vg |-> vg, tp |-> brick.TpName] \notin h.pools
        /\ ~DirExists(h, mp)
        /\ ~DirExists(h, brick.Path)

IdleOp ==
    [pc |-> "idle", req |-> 0, nested |-> FALSE, idx |-> 0, createErr |-> NilErr,
     umountErr |-> NilErr, fstabErr |-> NilErr, lvErr |-> NilErr, poolErr |-> NilErr, spaceReclaimed |-> FALSE, thinCount |-> -1,
     countErr |-> NilErr, rmdirErr |-> NilErr, nDestroy |-> 0, pre |-> FALSE,
     faulted |-> FALSE, snap |-> <<>>, log |-> <<>>]

\* what the BrickDestroy invoked within a call returned, if one returned
NoD == [done |-> FALSE, reclaimed |-> FALSE, err |-> NilErr]
DRet(spaceReclaimed, err) == [done |-> TRUE, reclaimed |-> spaceReclaimed, err |-> err]

NoRet ==
    [kind |-> "none", req |-> 0, info |-> FALSE, reclaimed |-> FALSE, err |-> NilErr,
     panic |-> FALSE, d |-> NoD, call |-> IdleOp]

\* the value a call hands back (info: a BrickInfo; panic: a Require check
\* failed), with the call's last local state
MkRet(kind, o, info, reclaimed, err, panic, d) ==
    [kind |-> kind, req |-> o.req, info |-> info, reclaimed |-> reclaimed, err |-> err,
     panic |-> panic, d |-> d, call |-> [o EXCEPT !.pc = "idle"]]

\* the call's record of a dispatched command; faulted: some command of the call
\* failed for an outside reason
Logged(o, cmd, res, fault) ==
    [o EXCEPT !.log = Append(@, [c |-> cmd.c, ok |-> res.ok]),
              !.faulted = @ \/ fault]

Brick(o) == Requests[o.req]

FaultChoices == IF nFaults < MaxFaults THEN {FALSE, TRUE} ELSE {FALSE}

CountFault(fault) == nFaults' = IF fault THEN nFaults + 1 ELSE nFaults

\* what is kept of the call before the last one
Brief(r) ==
    [kind |-> r.kind, req |-> r.req, info |-> r.info, failed |-> r.err.isErr,
     panic |-> r.panic, pre |-> r.call.pre]

\* the call of worker w ends and hands back r
Finish(w, r) ==
    /\ ret' = r
    /\ prevRet' = Brief(ret)
    /\ op' = [op EXCEPT ![w] = IdleOp]

\* a return statement of BrickDestroy; when BrickCreate called it for cleanup,
\* BrickCreate goes on to return nil and its own error (line 128)
DestroyReturn(w, o, spaceReclaimed, err) ==
    IF o.nested
    THEN Finish(w, MkRet("create", o, FALSE, FALSE, o.createErr, FALSE,
                         DRet(spaceReclaimed, err)))
    ELSE Finish(w, MkRet("destroy", o, FALSE, spaceReclaimed, err, FALSE,
                         DRet(spaceReclaimed, err)))

RECURSIVE RunAll(_, _)
RunAll(h, commands) ==
    IF commands = <<>> THEN h ELSE RunAll(Run(h, Head(commands)).h, Tail(commands))

\* the hosts a history starts from: an empty node, or a node on which brick 1
\* has been created
InitialHosts == {EmptyHost, RunAll(EmptyHost, CreateCommands(Requests[1]))}

Init ==
    /\ host \in InitialHosts
    /\ op = [w \in Workers |-> IdleOp]
    /\ ret = NoRet
    /\ prevRet = Brief(NoRet)
    /\ nOps = 0
    /\ nFaults = 0
    /\ nCrashes = 0

(* ----------------------------- BrickCreate ----------------------------- *)
\* BrickCreate is called with request r: the Require checks, then the batch
BrickCreate(w, r) ==
    /\ op[w].pc = "idle"
    /\ nOps < MaxOps
    /\ nOps' = nOps + 1
    /\ LET o == [IdleOp EXCEPT !.req = r, !.pre = BrickAbsent(host, Requests[r])]
       IN  IF CreateRequire(Requests[r])
           THEN /\ op' = [op EXCEPT ![w] = [o EXCEPT !.pc = "create", !.idx = 1]]
                /\ UNCHANGED <<ret, prevRet>>
           ELSE Finish(w, MkRet("create", o, FALSE, FALSE, NilErr, TRUE, NoD))
    /\ UNCHANGED <<host, nFaults, nCrashes>>

\* the next command of the batch runs on the host; the batch stops at the first
\* failure, BrickCreate then calls BrickDestroy with its own request; after the
\* last command BrickCreate returns the BrickInfo
CreateExec(w) ==
    /\ op[w].pc = "create"
    /\ \E fault \in FaultChoices :
         LET commands == CreateCommands(Brick(op[w]))
             cmd == commands[op[w].idx]
             res == ExecCommands(host, cmd, fault)
             err == AnyError(res)
             o   == Logged(op[w], cmd, res, fault)
         IN  /\ host' = res.h
             /\ CountFault(fault)
             /\ IF err.isErr
                THEN LET c == [o EXCEPT !.createErr = err, !.nDestroy = @ + 1,
                                        !.nested = TRUE]
                     IN  IF DestroyRequire(Brick(o))
                         THEN /\ op' = [op EXCEPT ![w] = [c EXCEPT !.pc = "umount"]]
                              /\ UNCHANGED <<ret, prevRet>>
                         ELSE Finish(w, MkRet("create", c, FALSE, FALSE, NilErr, TRUE, NoD))
                ELSE IF op[w].idx = Len(commands)
                     THEN Finish(w, MkRet("create", o, TRUE, FALSE, NilErr, FALSE, NoD))
                     ELSE /\ op' = [op EXCEPT ![w] = [o EXCEPT !.idx = @ + 1]]
                          /\ UNCHANGED <<ret, prevRet>>
    /\ UNCHANGED <<nOps, nCrashes>>

(* ----------------------------- BrickDestroy ---------------------------- *)
\* removeBrickFromFstab: nothing for an exempt path, else the sed command
removeBrickFromFstab(h, brick, fault) ==
    IF IsExemptPath(brick.Path) THEN Res(h, TRUE, <<>>)
    ELSE ExecCommands(h, Cmd("sed", BrickIdToName(brick.Name), Fstab, <<>>), fault)

\* deleteBrickLV
deleteBrickLV(h, vg, lvName, fault) ==
    ExecCommands(h, Cmd("lvremove", vg, lvName, <<>>), fault)

\* a variant that keeps the umount error whatever the list shows
UmountErrAfterCheck_Keep(umountErr, res, path) == umountErr

\* the umount error after the look at the live mount list (lines 191-195)
UmountErrAfterCheck(umountErr, res, path) ==
    IF res.ok /\ ~Contains(res.out, path) THEN NilErr ELSE umountErr

\* a variant that reports the space reclaimed only when the pool removal succeeded
ReclaimedAfterPoolRemove_OnSuccess(spaceReclaimed, err) ==
    IF err.isErr THEN spaceReclaimed ELSE TRUE

\* a variant that reports the space reclaimed when the pool removal failed
ReclaimedAfterPoolRemove_OnError(spaceReclaimed, err) == err.isErr

\* a variant that reports the space reclaimed whatever the pool removal returned
ReclaimedAfterPoolRemove_Always(spaceReclaimed, err) == TRUE

\* spaceReclaimed after the pool removal returned err (lines 259-268)
ReclaimedAfterPoolRemove(spaceReclaimed, err) ==
    IF errIsLvNotFound(err) THEN TRUE
    ELSE IF err.isErr THEN spaceReclaimed
    ELSE TRUE

\* a variant that looks at the table removal only
GateErr_TableOnly(fstabErr, umountErr) == fstabErr

\* a variant that prefers the umount error
GateErr_UmountFirst(fstabErr, umountErr) == IF umountErr.isErr THEN umountErr ELSE fstabErr

\* the gate after the table removal (lines 219-225): the error to return now,
\* nil to go on
GateErr(fstabErr, umountErr) == IF fstabErr.isErr THEN fstabErr ELSE umountErr

\* BrickDestroy is called with request r: the Require checks
BrickDestroy(w, r) ==
    /\ op[w].pc = "idle"
    /\ nOps < MaxOps
    /\ nOps' = nOps + 1
    /\ LET o == [IdleOp EXCEPT !.req = r, !.pre = BrickAbsent(host, Requests[r]),
                               !.nDestroy = 1]
       IN  IF DestroyRequire(Requests[r])
           THEN /\ op' = [op EXCEPT ![w] = [o EXCEPT !.pc = "umount"]]
                /\ UNCHANGED <<ret, prevRet>>
           ELSE Finish(w, MkRet("destroy", o, FALSE, FALSE, NilErr, TRUE, NoD))
    /\ UNCHANGED <<host, nFaults, nCrashes>>

\* umount <brick.Path>
DestroyUmount(w) ==
    /\ op[w].pc = "umount"
    /\ \E fault \in FaultChoices :
         LET cmd == Cmd("umount", Brick(op[w]).Path, <<>>, <<>>)
             res == ExecCommands(host, cmd, fault)
             umountErr == AnyError(res)
             o   == [Logged(op[w], cmd, res, fault) EXCEPT !.umountErr = umountErr]
         IN  /\ host' = res.h
             /\ CountFault(fault)
             /\ op' = [op EXCEPT ![w] =
                         [o EXCEPT !.pc = IF umountErr.isErr THEN "mountcheck" ELSE "fstab"]]
    /\ UNCHANGED <<ret, prevRet, nOps, nCrashes>>

\* after a failed umount: mount, and the test whether its output holds brick.Path
DestroyMountCheck(w) ==
    /\ op[w].pc = "mountcheck"
    /\ \E fault \in FaultChoices :
         LET cmd == Cmd("mountlist", <<>>, <<>>, <<>>)
             res == ExecCommands(host, cmd, fault)
             o   == Logged(op[w], cmd, res, fault)
         IN  /\ host' = res.h
             /\ CountFault(fault)
             /\ op' = [op EXCEPT ![w] =
                         [o EXCEPT !.pc = "fstab",
                                   !.umountErr =
                                       UmountErrAfterCheck(@, res, Brick(o).Path)]]
    /\ UNCHANGED <<ret, prevRet, nOps, nCrashes>>

\* removeBrickFromFstab, then the gate on its error and the umount error. sed -i
\* writes its result over the file: the lines it read (table), less those of the
\* pattern
DestroyFstabStep(w, pc, table) ==
    /\ op[w].pc = pc
    /\ \E fault \in FaultChoices :
         LET brick == Brick(op[w])
             cmd == Cmd("sed", BrickIdToName(brick.Name), Fstab, <<>>)
             skip == IsExemptPath(brick.Path)
             res == removeBrickFromFstab([host EXCEPT !.fstab = table], brick, fault)
             err == AnyError(res)
             o   == [IF skip THEN op[w] ELSE Logged(op[w], cmd, res, fault)
                        EXCEPT !.fstabErr = err, !.snap = <<>>]
         IN  /\ skip => ~fault
             /\ host' = IF skip \/ fault THEN host ELSE [host EXCEPT !.fstab = res.h.fstab]
             /\ CountFault(fault)
             /\ IF GateErr(err, o.umountErr).isErr
                THEN DestroyReturn(w, o, o.spaceReclaimed, GateErr(err, o.umountErr))
                ELSE /\ op' = [op EXCEPT ![w] = [o EXCEPT !.pc = "lvremove"]]
                     /\ UNCHANGED <<ret, prevRet>>
    /\ UNCHANGED <<nOps, nCrashes>>

\* the table removal when no other call runs between sed's reading and writing
DestroyFstab(w) == DestroyFstabStep(w, "fstab", host.fstab)

\* sed -i reads the table ...
DestroyFstabRead(w) ==
    /\ op[w].pc = "fstab"
    /\ ~IsExemptPath(Brick(op[w]).Path)
    /\ op' = [op EXCEPT ![w] = [@ EXCEPT !.pc = "fstabwrite", !.snap = host.fstab]]
    /\ UNCHANGED <<host, ret, prevRet, nOps, nFaults, nCrashes>>

\* ... and replaces the file by what it made of the lines it read
DestroyFstabWrite(w) == DestroyFstabStep(w, "fstabwrite", op[w].snap)

\* deleteBrickLV: lvremove -f <vg>/<LvName>
DestroyLvRemove(w) ==
    /\ op[w].pc = "lvremove"
    /\ \E fault \in FaultChoices :
         LET brick == Brick(op[w])
             cmd == Cmd("lvremove", VgIdToName(brick.VgId), brick.LvName, <<>>)
             res == deleteBrickLV(host, VgIdToName(brick.VgId), brick.LvName, fault)
             err == AnyError(res)
             o   == [Logged(op[w], cmd, res, fault) EXCEPT !.lvErr = err]
         IN  /\ host' = res.h
             /\ CountFault(fault)
             /\ IF err.isErr /\ ~errIsLvNotFound(err)
                THEN DestroyReturn(w, o, o.spaceReclaimed, err)
                ELSE /\ op' = [op EXCEPT ![w] = [o EXCEPT !.pc = "count"]]
                     /\ UNCHANGED <<ret, prevRet>>
    /\ UNCHANGED <<nOps, nCrashes>>

\* a variant that takes an output that is no number for a count of 0
countThinLVsInPool_BlankIsZero(res, tp) ==
    IF ~res.ok THEN [n |-> 0, err |-> AnyError(res)]
    ELSE IF AtoiOk(TrimSpace(res.out))
         THEN [n |-> AtoiVal(TrimSpace(res.out)), err |-> NilErr]
         ELSE [n |-> 0, err |-> NilErr]

\* a variant that does not read the count and reports none
countThinLVsInPool_NoCount(res, tp) == [n |-> 0, err |-> AnyError(res)]

\* countThinLVsInPool: the count and the error it returns
countThinLVsInPool(res, tp) ==
    IF ~res.ok THEN [n |-> 0, err |-> AnyError(res)]
    ELSE IF AtoiOk(TrimSpace(res.out))
         THEN [n |-> AtoiVal(TrimSpace(res.out)), err |-> NilErr]
         ELSE [n |-> 0, err |-> Err(MsgConvertPrefix \o tp \o MsgOnHost \o Host \o MsgAtoi
                                    \o <<"\"">> \o TrimSpace(res.out) \o <<"\"">> \o MsgSyntax)]

\* the thin-count query and the decision it leads to
DestroyCount(w) ==
    /\ op[w].pc = "count"
    /\ \E fault \in FaultChoices :
         LET brick == Brick(op[w])
             vg  == VgIdToName(brick.VgId)
             tp  == vg \o <<"/">> \o brick.TpName
             cmd == Cmd("lvs", vg, brick.TpName, <<>>)
             res == ExecCommands(host, cmd, fault)
             cnt == countThinLVsInPool(res, tp)
             thin_count == IF cnt.err.isErr THEN 0 ELSE cnt.n
             o   == [Logged(op[w], cmd, res, fault) EXCEPT !.thinCount = thin_count,
                                                     !.countErr = cnt.err]
         IN  /\ host' = res.h
             /\ CountFault(fault)
             /\ IF cnt.err.isErr /\ ~errIsLvNotFound(cnt.err)
                THEN DestroyReturn(w, o, o.spaceReclaimed,
                                   Err(MsgCountPrefix \o tp \o MsgOnHost \o Host))
                ELSE /\ op' = [op EXCEPT ![w] =
                                 [o EXCEPT !.pc = IF thin_count = 0 THEN "poolremove"
                                                  ELSE "rmdir"]]
                     /\ UNCHANGED <<ret, prevRet>>
    /\ UNCHANGED <<nOps, nCrashes>>

\* lvremove -f <vg>/<TpName>, dispatched when thin_count is 0
DestroyPoolRemove(w) ==
    /\ op[w].pc = "poolremove"
    /\ \E fault \in FaultChoices :
         LET brick == Brick(op[w])
             cmd == Cmd("poolremove", VgIdToName(brick.VgId), brick.TpName, <<>>)
             res == ExecCommands(host, cmd, fault)
             err == AnyError(res)
             o   == Logged(op[w], cmd, res, fault)
         IN  /\ host' = res.h
             /\ CountFault(fault)
             /\ op' = [op EXCEPT ![w] =
                         [o EXCEPT !.pc = "rmdir",
                                   !.poolErr = err,
                                   !.spaceReclaimed =
                                       ReclaimedAfterPoolRemove(@, err)]]
    /\ UNCHANGED <<ret, prevRet, nOps, nCrashes>>

\* rmdir <brick.Path>, and the return of spaceReclaimed with a nil error
DestroyRmdir(w) ==
    /\ op[w].pc = "rmdir"
    /\ \E fault \in FaultChoices :
         LET cmd == Cmd("rmdir", Brick(op[w]).Path, <<>>, <<>>)
             res == ExecCommands(host, cmd, fault)
             o   == [Logged(op[w], cmd, res, fault) EXCEPT !.rmdirErr = AnyError(res)]
         IN  /\ host' = res.h
             /\ CountFault(fault)
             /\ DestroyReturn(w, o, o.spaceReclaimed, NilErr)
    /\ UNCHANGED <<nOps, nCrashes>>

\* the manager (or the node's session) dies between two remote commands: the
\* call in progress never continues
Crash(w) ==
    /\ op[w].pc # "idle"
    /\ nCrashes < MaxCrashes
    /\ nCrashes' = nCrashes + 1
    /\ Finish(w, MkRet("crash", [IdleOp EXCEPT !.req = op[w].req], FALSE, FALSE, NilErr,
                       FALSE, NoD))
    /\ UNCHANGED <<host, nOps, nFaults>>

Step(w) ==
    \/ \E r \in CreateRequests : BrickCreate(w, r)
    \/ CreateExec(w)
    \/ \E r \in DestroyRequests : BrickDestroy(w, r)
    \/ DestroyUmount(w)
    \/ DestroyMountCheck(w)
    \/ DestroyFstab(w)
    \/ DestroyLvRemove(w)
    \/ DestroyCount(w)
    \/ DestroyPoolRemove(w)
    \/ DestroyRmdir(w)
    \/ Crash(w)

\* calls do not overlap: one worker issues them one after the other
Next == \E w \in SeqWorkers : Step(w)

Spec == Init /\ [][Next]_vars

(* ---------------------- BrickCreate, any call ------------------------- *)
\* the requests BrickCreate is called with when callers pass anything
AnyCreateRequests == {1, 2} \cup BadRequests

RequireNext ==
    \E w \in SeqWorkers :
        \/ \E r \in AnyCreateRequests : BrickCreate(w, r)
        \/ CreateExec(w)
        \/ DestroyUmount(w)
        \/ DestroyMountCheck(w)
        \/ DestroyFstab(w)
        \/ DestroyLvRemove(w)
        \/ DestroyCount(w)
        \/ DestroyPoolRemove(w)
        \/ DestroyRmdir(w)

\* BrickCreate called with well-formed and with malformed requests
RequireSpec == Init /\ [][RequireNext]_vars

(* ------------- bricks with a logical-volume name of their own ---------- *)
\* the requests of callers that name the logical volume themselves
LvNameRequests == {1, 14}

LvNameNext ==
    \E w \in SeqWorkers :
        \/ \E r \in LvNameRequests : BrickCreate(w, r)
        \/ CreateExec(w)
        \/ \E r \in LvNameRequests : BrickDestroy(w, r)
        \/ DestroyUmount(w)
        \/ DestroyMountCheck(w)
        \/ DestroyFstab(w)
        \/ DestroyLvRemove(w)
        \/ DestroyCount(w)
        \/ DestroyPoolRemove(w)
        \/ DestroyRmdir(w)

\* creates and destroys of bricks whose LvName is, or is not, brick_<Name>
LvNameSpec == Init /\ [][LvNameNext]_vars

(* ------------------- BrickDestroy of a brick in use -------------------- *)
\* the hosts with brick 1 created, its mount point kept open by a process or not
DestroyHosts ==
    LET h == RunAll(EmptyHost, CreateCommands(Requests[1]))
    IN  {h, [h EXCEPT !.busy = {BrickMountFromPath(Requests[1].Path)}]}

DestroyInit ==
    /\ host \in DestroyHosts
    /\ op = [w \in Workers |-> IdleOp]
    /\ ret = NoRet
    /\ prevRet = Brief(NoRet)
    /\ nOps = 0
    /\ nFaults = 0
    /\ nCrashes = 0

DestroyNext ==
    \E w \in SeqWorkers :
        \/ \E r \in {1, 3, 5, 15} : BrickDestroy(w, r)
        \/ DestroyUmount(w)
        \/ DestroyMountCheck(w)
        \/ DestroyFstab(w)
        \/ DestroyLvRemove(w)
        \/ DestroyCount(w)
        \/ DestroyPoolRemove(w)
        \/ DestroyRmdir(w)

\* BrickDestroy calls on a host that holds a brick
DestroySpec == DestroyInit /\ [][DestroyNext]_vars

(* ------------------------- calls that overlap -------------------------- *)
\* the executor runs one worker per request: while a call waits for one of its
\* commands, the commands of another call run on the same host
ConcCreateRequests == {3, 16}
ConcDestroyRequests == {5}

\* the calls in flight are about different bricks
OtherBrick(w, r) ==
    \A v \in Workers \ {w} :
        op[v].pc # "idle" => Requests[op[v].req].Name # Requests[r].Name

\* no command fails for a reason outside the host's state
ConcInit ==
    /\ host \in InitialHosts
    /\ op = [w \in Workers |-> IdleOp]
    /\ ret = NoRet
    /\ prevRet = Brief(NoRet)
    /\ nOps = 0
    /\ nFaults = MaxFaults
    /\ nCrashes = 0

ConcNext ==
    \E w \in Workers :
        \/ \E r \in ConcCreateRequests :
              /\ OtherBrick(w, r)
              /\ \A l \in host.lvs : l.lv # Requests[r].LvName
              /\ BrickCreate(w, r)
        \/ CreateExec(w)
        \/ \E r \in ConcDestroyRequests : OtherBrick(w, r) /\ BrickDestroy(w, r)
        \/ DestroyUmount(w)
        \/ DestroyMountCheck(w)
        \/ op[w].pc = "fstab" /\ IsExemptPath(Brick(op[w]).Path) /\ DestroyFstab(w)
        \/ DestroyFstabRead(w)
        \/ DestroyFstabWrite(w)
        \/ DestroyLvRemove(w)
        \/ DestroyCount(w)
        \/ DestroyPoolRemove(w)
        \/ DestroyRmdir(w)

\* calls on different bricks of one host, their commands interleaved
ConcSpec == ConcInit /\ [][ConcNext]_vars

(* ------------------------- GetBrickMountStatus ------------------------- *)
\* lines of the persistent mount table kept in one table
MaxLines == 3

\* cat <fstab>: the table, line by line
RECURSIVE CatText(_)
CatText(lines) ==
    IF lines = <<>> THEN <<>> ELSE Head(lines) \o <<"\n">> \o CatText(Tail(lines))

RunCat(h) == Res(h, TRUE, CatText(h.fstab))

\* the loop test of GetBrickMountStatus: a blank line, or one that starts with #
SkipLine(line) == TrimSpace(line) = <<>> \/ line[1] = "#"

\* the first loop: the set of devices that are keys of isMounted
RECURSIVE MountedDevices(_)
MountedDevices(lines) ==
    IF lines = <<>> THEN {}
    ELSE IF SkipLine(Head(lines)) THEN MountedDevices(Tail(lines))
    ELSE {Fields(Head(lines))[1]} \cup MountedDevices(Tail(lines))

\* the second loop: the statuses appended, line after line; indexing parts
\* beyond its length is a run-time panic
RECURSIVE BrickMounts(_, _)
BrickMounts(lines, isMounted) ==
    IF lines = <<>> THEN [panic |-> FALSE, statuses |-> <<>>]
    ELSE IF SkipLine(Head(lines)) THEN BrickMounts(Tail(lines), isMounted)
    ELSE LET parts == Fields(Head(lines))
         IN  IF Len(parts) < 4 THEN [panic |-> TRUE, statuses |-> <<>>]
             ELSE LET rest == BrickMounts(Tail(lines), isMounted)
                  IN  [panic |-> rest.panic,
                       statuses |->
                           IF rest.panic THEN <<>>
                           ELSE << [Device |-> parts[1], MountPoint |-> parts[2],
                                    Type |-> parts[3], MountOptions |-> parts[4],
                                    Mounted |-> parts[1] \in isMounted] >>
                                \o rest.statuses]

\* the lines a persistent mount table is made of: the lines BrickCreate writes
\* for bricks 1 and 2, an empty line, a comment, a line of white space, an
\* entry with tabs between its four fields, and a comment that is indented
StatusLines ==
    { FstabLine(BrickDevNode(Requests[1].VgId, Requests[1].Name),
                BrickMountFromPath(Requests[1].Path)),
      FstabLine(BrickDevNode(Requests[2].VgId, Requests[2].Name),
                BrickMountFromPath(Requests[2].Path)),
      <<>>,
      <<"#", " ", "c">>,
      <<" ", "\t">>,
      <<"/", "s", "\t", "/", "\t", "x", "\t", "d">>,
      <<" ", "#", " ", "c">> }

StatusTables == UNION {[1..n -> StatusLines] : n \in 0..MaxLines}

\* the live mount lists: nothing mounted, brick 1, or bricks 2 and 1
StatusMounts ==
    LET m(r) == [dev |-> BrickDevNode(Requests[r].VgId, Requests[r].Name),
                 mp  |-> BrickMountFromPath(Requests[r].Path)]
    IN  { <<>>, <<m(1)>>, <<m(2), m(1)>> }

StatusHosts ==
    {[EmptyHost EXCEPT !.fstab = t, !.mounts = ms] : t \in StatusTables, ms \in StatusMounts}

StatusInit ==
    /\ host \in StatusHosts
    /\ op = [w \in Workers |-> IdleOp]
    /\ ret = NoRet
    /\ prevRet = Brief(NoRet)
    /\ nOps = 0
    /\ nFaults = 0
    /\ nCrashes = 0

\* GetBrickMountStatus: mount and cat <fstab> in one batch (failed: the command
\* of the batch that fails for an outside reason, 0 for none), then the two loops
GetBrickMountStatus(w) ==
    /\ op[w].pc = "idle"
    /\ nOps < MaxOps
    /\ nOps' = nOps + 1
    /\ \E failed \in 0..2 :
         LET res0 == ExecCommands(host, Cmd("mountlist", <<>>, <<>>, <<>>), failed = 1)
             res1 == IF failed = 2 THEN Res(host, FALSE, MsgTimeout) ELSE RunCat(host)
             err  == IF ~res0.ok THEN AnyError(res0) ELSE AnyError(res1)
             isMounted == MountedDevices(SplitLines(res0.out))
             bm   == BrickMounts(SplitLines(res1.out), isMounted)
             o    == [IdleOp EXCEPT !.faulted = failed # 0]
         IN  /\ failed # 0 => nFaults < MaxFaults
             /\ CountFault(failed # 0)
             /\ IF Host = <<>>
                THEN Finish(w, [statuses |-> <<>>] @@
                               MkRet("status", o, FALSE, FALSE, NilErr, TRUE, NoD))
                ELSE IF err.isErr
                THEN Finish(w, [statuses |-> <<>>] @@
                               MkRet("status", o, FALSE, FALSE,
                                     Err(MsgStatusPrefix \o err.msg), FALSE, NoD))
                ELSE Finish(w, [statuses |-> bm.statuses] @@
                               MkRet("status", o, ~bm.panic, FALSE, NilErr, bm.panic, NoD))
    /\ UNCHANGED <<host, nCrashes>>

StatusNext == \E w \in SeqWorkers : GetBrickMountStatus(w)

\* the status query alone, on a host with a table and a mount list
StatusSpec == StatusInit /\ [][StatusNext]_vars

(* ------------------------------ claims -------------------------------- *)
\* every worker is between calls: the host is as the last call left it
AtReturn == \A w \in Workers : op[w].pc = "idle"

\* the device field of a line of the persistent mount table
LineDevice(line) ==
    LET sp == {i \in 1..Len(line) : line[i] = " "}
    IN  IF sp = {} THEN line
        ELSE SubSeq(line, 1, (CHOOSE i \in sp : \A j \in sp : i <= j) - 1)

LogHas(log, c) == \E i \in 1..Len(log) : log[i].c = c

LvExists(h, brick) ==
    \E l \in h.lvs : l.vg = VgIdToName(brick.VgId) /\ l.lv = brick.LvName

PoolExists(h, brick) == [vg |-> VgIdToName(brick.VgId), tp |-> brick.TpName] \in h.pools

\* the thin volumes of the brick's pool
PoolVolumes(h, brick) ==
    {l \in h.lvs : l.vg = VgIdToName(brick.VgId) /\ l.pool = brick.TpName}

\* the lines of the table that removeBrickFromFstab's pattern selects
NameLines(h, brick) ==
    {i \in 1..Len(h.fstab) : Contains(h.fstab[i], BrickIdToName(brick.Name))}

\* the lines of the table for the brick's device node and mount path
BrickLines(h, brick) ==
    {i \in 1..Len(h.fstab) :
        HasPrefix(h.fstab[i], BrickDevNode(brick.VgId, brick.Name) \o <<" ">>
                              \o BrickMountFromPath(brick.Path) \o <<" ">>)}

\* C1 (as claimed): boot safety. In every reachable state, every line of the
\* persistent mount table names a device whose logical volume exists.
C1_BootSafety ==
    \A i \in 1..Len(host.fstab) : LvByDev(host, LineDevice(host.fstab[i])) # {}

\* C2 (as claimed): when a command of the create batch failed, create has
\* invoked destroy exactly once, destroy returned, and create returns no
\* BrickInfo and the error of the failed command.
C2_CreateFailureCompensated ==
    (ret.kind = "create" /\ ret.call.createErr.isErr)
        => /\ ret.call.nDestroy = 1
           /\ ret.d.done
           /\ ~ret.panic
           /\ ~ret.info
           /\ ret.err = ret.call.createErr

\* C3: the thin-pool removal is dispatched only with a thin count of zero (the
\* query gave 0 or reported the pool absent), and then the pool holds no thin
\* volume; with a non-zero count no pool removal is dispatched, the pool is
\* still there when destroy returns, and destroy returns spaceReclaimed = false.
C3_PoolRemovedOnlyAtZero ==
    /\ \A w \in Workers :
         /\ op[w].pc = "poolremove"
              => /\ op[w].thinCount = 0
                 /\ ~op[w].countErr.isErr \/ errIsLvNotFound(op[w].countErr)
                 /\ PoolVolumes(host, Brick(op[w])) = {}
         /\ LogHas(op[w].log, "poolremove") => op[w].thinCount = 0
    /\ LogHas(ret.call.log, "poolremove") => ret.call.thinCount = 0
    /\ (ret.d.done /\ ret.call.thinCount > 0)
         => /\ ~LogHas(ret.call.log, "poolremove")
            /\ ~ret.d.reclaimed
            /\ AtReturn => PoolExists(host, Requests[ret.req])

\* C3, its case: a destroy found other thin volumes in the pool and returned
C3_Witness ==
    /\ AtReturn
    /\ ret.kind = "destroy"
    /\ ret.call.thinCount > 0
    /\ ~ret.err.isErr
    /\ PoolVolumes(host, Requests[ret.req]) # {}

\* C4 (as claimed): a destroy that follows a failed create of the same request
\* returns a nil error. Stated for the most favourable case: the create was
\* called on a host that held nothing of the brick, and no command of the
\* destroy fails for an outside reason.
C4_DestroyAfterFailedCreate ==
    (/\ ret.kind = "destroy"
     /\ prevRet.kind = "create"
     /\ prevRet.failed
     /\ prevRet.pre
     /\ prevRet.req = ret.req
     /\ ~ret.call.faulted)
        => ~ret.err.isErr /\ ~ret.panic

\* C5 (as claimed): destroy is idempotent. A destroy that follows a destroy of
\* the same request which returned nil and left nothing of the brick on the
\* host returns a nil error (none of its commands failing for an outside
\* reason).
C5_DestroyIdempotent ==
    (/\ ret.kind = "destroy"
     /\ prevRet.kind = "destroy"
     /\ ~prevRet.failed
     /\ ~prevRet.panic
     /\ prevRet.req = ret.req
     /\ ret.call.pre
     /\ ~ret.call.faulted)
        => ~ret.err.isErr

\* C6 (as claimed): round trip. After a successful create on a host that held
\* nothing of the brick, the destroy of the same request leaves nothing of the
\* brick on the host: no mount, no table line, no volume, no pool, no directory
\* (no command of the destroy failing for an outside reason).
C6_RoundTrip ==
    (/\ AtReturn
     /\ ret.kind = "destroy"
     /\ prevRet.kind = "create"
     /\ prevRet.info
     /\ prevRet.pre
     /\ prevRet.req = ret.req
     /\ ~ret.call.faulted)
        => BrickAbsent(host, Requests[ret.req])

\* a BrickDestroy (called directly, or by BrickCreate for cleanup) has just
\* returned spaceReclaimed and a nil error
DestroyReturned(spaceReclaimed) ==
    /\ AtReturn
    /\ ret.kind \in {"create", "destroy"}
    /\ ret.d.done
    /\ ret.d.reclaimed = spaceReclaimed
    /\ ~ret.d.err.isErr

\* the final rmdir failed although the directory was there
RmdirFailed(call) == call.rmdirErr.isErr /\ call.rmdirErr.msg # MsgNoDevice

\* C7 (as claimed): when destroy returns (true, nil), no line of the table holds
\* the brick's name (as removeBrickFromFstab writes it), the logical volume is
\* gone, the thin pool is gone, and the directory brick.Path is absent.
C7_ReclaimedMeansGone ==
    DestroyReturned(TRUE)
        => /\ NameLines(host, Requests[ret.req]) = {}
           /\ ~LvExists(host, Requests[ret.req])
           /\ ~PoolExists(host, Requests[ret.req])
           /\ ~DirExists(host, Requests[ret.req].Path)

\* C7 (amended): when destroy returns (true, nil), the logical volume and the
\* thin pool are gone; no line of the table holds the brick's name unless
\* brick.Path is an exempt path; the directory brick.Path is absent unless the
\* final rmdir failed.
C7_ReclaimedMeansGoneAmended ==
    DestroyReturned(TRUE)
        => /\ IsExemptPath(Requests[ret.req].Path) \/ NameLines(host, Requests[ret.req]) = {}
           /\ ~LvExists(host, Requests[ret.req])
           /\ ~PoolExists(host, Requests[ret.req])
           /\ RmdirFailed(ret.call) \/ ~DirExists(host, Requests[ret.req].Path)

\* C7, its case: a destroy unmounted a created brick, removed its table line,
\* its volume, its pool and its directory, and returned (true, nil)
C7_Witness ==
    /\ DestroyReturned(TRUE)
    /\ ret.kind = "destroy"
    /\ ~ret.call.pre
    /\ ret.call.log = << [c |-> "umount", ok |-> TRUE], [c |-> "sed", ok |-> TRUE],
                         [c |-> "lvremove", ok |-> TRUE], [c |-> "lvs", ok |-> TRUE],
                         [c |-> "poolremove", ok |-> TRUE], [c |-> "rmdir", ok |-> TRUE] >>

\* C8 (as claimed): when destroy returns (false, nil), the logical volume is
\* gone and the directory brick.Path is absent, and the thin pool still exists
\* with other thin volumes in it.
C8_NotReclaimedMeansShared ==
    DestroyReturned(FALSE)
        => /\ ~LvExists(host, Requests[ret.req])
           /\ ~DirExists(host, Requests[ret.req].Path)
           /\ PoolExists(host, Requests[ret.req])
           /\ PoolVolumes(host, Requests[ret.req]) # {}

\* C8 (amended): when destroy returns (false, nil), the logical volume is
\* gone, and either the thin pool still exists with other thin volumes in it,
\* or the pool removal was dispatched and failed; the directory brick.Path is
\* absent unless the final rmdir failed.
C8_NotReclaimedAmended ==
    DestroyReturned(FALSE)
        => /\ ~LvExists(host, Requests[ret.req])
           /\ \/ /\ PoolExists(host, Requests[ret.req])
                 /\ PoolVolumes(host, Requests[ret.req]) # {}
              \/ \E i \in 1..Len(ret.call.log) :
                    ret.call.log[i] = [c |-> "poolremove", ok |-> FALSE]
           /\ RmdirFailed(ret.call) \/ ~DirExists(host, Requests[ret.req].Path)

\* C8, its case: a destroy found another thin volume in the pool, left the pool
\* and returned (false, nil)
C8_Witness ==
    /\ DestroyReturned(FALSE)
    /\ ret.call.thinCount > 0
    /\ PoolVolumes(host, Requests[ret.req]) # {}
    /\ LogHas(ret.call.log, "rmdir")

\* C9 (as claimed): after a successful create the table holds exactly one line
\* for the brick's device node and mount path.
C9_OneEntryAfterCreate ==
    (AtReturn /\ ret.kind = "create" /\ ret.info)
        => Cardinality(BrickLines(host, Requests[ret.req])) = 1

\* C10 (as claimed): no step of a call for a brick whose path is exempt changes
\* the persistent mount table.
C10_ExemptUntouched ==
    [][(\E w \in Workers : op[w].pc # "idle" /\ IsExemptPath(Brick(op[w]).Path))
          => host'.fstab = host.fstab]_vars

\* the positions where a white-space-separated token of the line starts
TokenStarts(line) ==
    {i \in 1..Len(line) : ~IsSpace(line[i]) /\ (i = 1 \/ IsSpace(line[i - 1]))}

\* the k-th white-space-separated token of a line that has one
Token(line, k) ==
    LET from == CHOOSE i \in TokenStarts(line) :
                    Cardinality({j \in TokenStarts(line) : j < i}) = k - 1
        to   == CHOOSE j \in from..Len(line) :
                    /\ \A x \in from..j : ~IsSpace(line[x])
                    /\ j = Len(line) \/ IsSpace(line[j + 1])
    IN  SubSeq(line, from, to)

\* a line of the table that is neither blank nor a comment (leading #)
IsEntry(line) == (\E i \in 1..Len(line) : ~IsSpace(line[i])) /\ line[1] # "#"

\* the entries of the host's persistent mount table, in table order
TableEntries(h) == SelectSeq(h.fstab, IsEntry)

\* C11 (as claimed): when get_mount_status returns without error, it returns,
\* in table order, one record per non-blank, non-comment line of the persistent
\* mount table, with the line's first four tokens as device, mount point, type
\* and options, and mounted true iff the device is mounted on the host.
C11_StatusPerLine ==
    (ret.kind = "status" /\ ~ret.err.isErr)
        => /\ ~ret.panic
           /\ Len(ret.statuses) = Len(TableEntries(host))
           /\ \A i \in 1..Len(ret.statuses) :
                LET line == TableEntries(host)[i]
                IN  ret.statuses[i] =
                        [Device |-> Token(line, 1), MountPoint |-> Token(line, 2),
                         Type |-> Token(line, 3), MountOptions |-> Token(line, 4),
                         Mounted |-> \E m \in MountSet(host) : m.dev = Token(line, 1)]
\* a call that the claim says create rejects
MustReject(brick) ==
    \/ brick.Nil
    \/ brick.Host = <<>>
    \/ brick.Name = <<>>
    \/ brick.VgId = <<>>
    \/ brick.Path = <<>>
    \/ brick.Size <= 0
    \/ brick.TpSize < brick.Size
    \/ brick.Fstab = <<>>

\* C12: a create call with a nil request, an empty host, name, vg_id or path,
\* size <= 0, tp_size < size or an empty fstab path is rejected (a failed Require)
\* with no remote command dispatched; every other call, the one with
\* tp_size = size included, passes the checks and dispatches commands.
C12_CreatePreconditions ==
    /\ \A w \in Workers : op[w].pc # "idle" => ~MustReject(Brick(op[w]))
    /\ ret.kind = "create"
         => IF MustReject(Requests[ret.req])
            THEN ret.panic /\ ~ret.info /\ ret.call.log = <<>>
            ELSE ret.call.log # <<>>

\* C12, its case: a create with tp_size = size has succeeded, and the next
\* create, with tp_size < size, was rejected before any command
C12_Witness ==
    /\ ret.kind = "create"
    /\ ret.panic
    /\ ret.call.log = <<>>
    /\ Requests[ret.req].TpSize < Requests[ret.req].Size
    /\ prevRet.kind = "create"
    /\ prevRet.info
    /\ Requests[prevRet.req].TpSize = Requests[prevRet.req].Size
\* the call dispatched this command and it failed
CmdFailed(log, c) == \E i \in 1..Len(log) : log[i] = [c |-> c, ok |-> FALSE]

\* brick.Path is a mount point of the live mount list
PathMounted(h, brick) == \E m \in MountSet(h) : m.mp = brick.Path

\* the call dispatched a command of the steps that follow the gate
AfterGate(log) ==
    LogHas(log, "lvremove") \/ LogHas(log, "lvs") \/ LogHas(log, "poolremove")
        \/ LogHas(log, "rmdir")

\* the destroy of this call is beyond the gate
PastGate(o) == o.pc \in {"lvremove", "count", "poolremove", "rmdir"}

\* C13: gate. If the umount failed and brick.Path is still mounted, or the
\* table removal failed, destroy does not go beyond the gate: it returns an error
\* and spaceReclaimed = false, having dispatched no lvremove, no thin-count
\* query, no pool removal and no rmdir.
C13_Gate ==
    /\ \A w \in Workers :
         PastGate(op[w])
            => /\ ~CmdFailed(op[w].log, "sed")
               /\ ~(CmdFailed(op[w].log, "umount") /\ PathMounted(host, Brick(op[w])))
    /\ (/\ AtReturn
        /\ ret.d.done
        /\ \/ CmdFailed(ret.call.log, "sed")
           \/ CmdFailed(ret.call.log, "umount") /\ PathMounted(host, Requests[ret.req]))
         => /\ ret.d.err.isErr
            /\ ~ret.d.reclaimed
            /\ ~AfterGate(ret.call.log)

\* C13, its case: the umount failed, brick.Path is still mounted, the table
\* removal was dispatched and destroy returned the error
C13_Witness ==
    /\ AtReturn
    /\ ret.kind = "destroy"
    /\ CmdFailed(ret.call.log, "umount")
    /\ PathMounted(host, Requests[ret.req])
    /\ LogHas(ret.call.log, "sed")
    /\ ret.err.isErr

\* C14 (as claimed): when the unmount and the table removal both failed in one
\* destroy call, destroy returns the umount error.
C14_UmountErrorPreferred ==
    (ret.d.done /\ ret.call.umountErr.isErr /\ ret.call.fstabErr.isErr)
        => ret.d.err = ret.call.umountErr

\* C14 (amended): when the unmount and the table removal both failed in one
\* destroy call, destroy returns the error of the table removal.
C14_TableErrorPreferred ==
    (ret.d.done /\ ret.call.umountErr.isErr /\ ret.call.fstabErr.isErr)
        => ret.d.err = ret.call.fstabErr /\ ~ret.d.reclaimed

\* C14, its case: a busy brick could not be unmounted, the table removal failed
\* with another error, and destroy returned
C14_Witness ==
    /\ AtReturn
    /\ ret.kind = "destroy"
    /\ ret.call.umountErr.isErr
    /\ ret.call.fstabErr.isErr
    /\ ret.call.umountErr # ret.call.fstabErr
    /\ PathMounted(host, Requests[ret.req])
\* the positions of command c in the call's record
At(log, c) == {i \in 1..Len(log) : log[i].c = c}

\* the path lies under /run/gluster/ or /var/run/gluster/
UnderRunGluster(path) == HasPrefix(path, StrRunGluster) \/ HasPrefix(path, StrVarRunGluster)

\* the order of the table removal in a record of dispatched commands: at most
\* one, after the umount, before every removal of a volume or pool, and none of
\* those without it
TableRemovalInOrder(log) ==
    /\ Cardinality(At(log, "sed")) <= 1
    /\ \A i \in At(log, "sed") :
         /\ \E j \in At(log, "umount") : j < i
         /\ \A j \in At(log, "mountlist") : j < i
         /\ \A j \in At(log, "lvremove") \cup At(log, "poolremove") : i < j
    /\ At(log, "lvremove") \cup At(log, "poolremove") # {} => At(log, "sed") # {}

\* C15: in every destroy for a non-exempt path the table removal is dispatched
\* exactly once, after the unmount step whatever its outcome, and before any
\* removal of a logical volume.
C15_TableRemovalOnce ==
    /\ \A w \in Workers :
         (op[w].pc # "idle" /\ ~UnderRunGluster(Brick(op[w]).Path))
            => /\ TableRemovalInOrder(op[w].log)
               /\ PastGate(op[w]) => Cardinality(At(op[w].log, "sed")) = 1
    /\ (ret.d.done /\ ~UnderRunGluster(Requests[ret.req].Path))
         => /\ TableRemovalInOrder(ret.call.log)
            /\ Cardinality(At(ret.call.log, "sed")) = 1

\* C15, its case: the umount failed, the mount list showed brick.Path still
\* mounted, the table removal was dispatched all the same, and destroy returned
C15_Witness ==
    /\ AtReturn
    /\ ret.kind = "destroy"
    /\ ~UnderRunGluster(Requests[ret.req].Path)
    /\ PathMounted(host, Requests[ret.req])
    /\ ret.call.log = << [c |-> "umount", ok |-> FALSE], [c |-> "mountlist", ok |-> TRUE],
                         [c |-> "sed", ok |-> TRUE] >>
\* the call read the live mount list and the list does not hold the path (the
\* mounts do not change between that command and the return of the call)
ListedAbsent(call, h, path) ==
    /\ \E i \in 1..Len(call.log) : call.log[i] = [c |-> "mountlist", ok |-> TRUE]
    /\ ~Contains(MountText(h.mounts), path)

\* a destroy whose umount command failed has returned
UmountFailedReturned ==
    AtReturn /\ ret.d.done /\ CmdFailed(ret.call.log, "umount")

\* C16 (as claimed): after a failed umount destroy reads the live mount list.
\* If the list was read and does not contain brick.Path, the umount error is
\* cleared and the teardown goes on through the removal of the logical volume;
\* otherwise the umount error is kept and destroy returns it, after the table
\* removal and before any other command.
C16_MountCheck ==
    UmountFailedReturned
        => /\ LogHas(ret.call.log, "mountlist")
           /\ IF ListedAbsent(ret.call, host, Requests[ret.req].Path)
              THEN ~ret.call.umountErr.isErr /\ LogHas(ret.call.log, "lvremove")
              ELSE /\ ret.call.umountErr.isErr
                   /\ ret.d.err = ret.call.umountErr
                   /\ ~AfterGate(ret.call.log)

\* C16 (amended): after a failed umount destroy reads the live mount list. If
\* the list was read and does not contain brick.Path, the umount error is
\* cleared and, unless the table removal fails, the teardown goes on through the
\* removal of the logical volume; otherwise the umount error is kept and destroy
\* stops at the gate after the table removal (dispatched unless the path is
\* exempt), returning the umount error, or the table-removal error if that
\* failed too.
C16_MountCheckAmended ==
    UmountFailedReturned
        => /\ LogHas(ret.call.log, "mountlist")
           /\ IF ListedAbsent(ret.call, host, Requests[ret.req].Path)
              THEN /\ ~ret.call.umountErr.isErr
                   /\ IF ret.call.fstabErr.isErr
                      THEN ret.d.err = ret.call.fstabErr /\ ~AfterGate(ret.call.log)
                      ELSE LogHas(ret.call.log, "lvremove")
              ELSE /\ ret.call.umountErr.isErr
                   /\ ret.d.err = IF ret.call.fstabErr.isErr THEN ret.call.fstabErr
                                  ELSE ret.call.umountErr
                   /\ ~AfterGate(ret.call.log)
                   /\ UnderRunGluster(Requests[ret.req].Path) \/ LogHas(ret.call.log, "sed")

\* C16, its case: the brick was not mounted, the umount failed, the list did
\* not hold brick.Path, and the teardown went on to reclaim the pool
C16_Witness ==
    /\ UmountFailedReturned
    /\ ret.kind = "destroy"
    /\ ListedAbsent(ret.call, host, Requests[ret.req].Path)
    /\ LogHas(ret.call.log, "lvremove")
    /\ ret.reclaimed
    /\ ~ret.err.isErr
\* the commands of the create batch
CreateNames == {"mkdirp", "lvcreate", "mkfs", "fstab", "mount", "mkdir", "chown", "chmod"}

\* the order the claim gives for a request with this gid
CreateOrder(gid) ==
    <<"mkdirp", "lvcreate", "mkfs", "fstab", "mount", "mkdir">>
        \o (IF gid # 0 THEN <<"chown", "chmod">> ELSE <<>>)

\* what a call's record shows of its create batch: the commands are a leading
\* part of the order, none dispatched after one that failed, all of them ahead
\* of any command of the cleanup; the list built for the request has that order,
\* and its ownership commands set the gid and mode 2775 on brick.Path
CreateBatchInOrder(o) ==
    LET brick == Brick(o)
        order == CreateOrder(brick.Gid)
        cmds  == CreateCommands(brick)
        n     == Cardinality({i \in 1..Len(o.log) : o.log[i].c \in CreateNames})
    IN  /\ n <= Len(order)
        /\ \A i \in 1..n : o.log[i].c = order[i] /\ (i < n => o.log[i].ok)
        /\ [i \in 1..Len(cmds) |-> cmds[i].c] = order
        /\ brick.Gid # 0
             => /\ cmds[Len(cmds) - 1] = Cmd("chown", brick.Path, <<":">> \o Itoa(brick.Gid), <<>>)
                /\ cmds[Len(cmds)] = Cmd("chmod", brick.Path, <<"2","7","7","5">>, <<>>)
        /\ cmds[4].x = cmds[5].x /\ cmds[4].y = cmds[5].y

\* C17: create dispatches mkdir -p, lvcreate, mkfs, the table append, mount and
\* mkdir of the data directory in this order, then chown and chmod 2775 iff the
\* gid is not 0; a create that returns a BrickInfo has dispatched them all.
C17_CreateOrder ==
    /\ \A w \in Workers :
         (op[w].pc # "idle" /\ LogHas(op[w].log, "mkdirp")) => CreateBatchInOrder(op[w])
    /\ (ret.kind = "create" /\ ~ret.panic)
         => /\ CreateBatchInOrder([ret.call EXCEPT !.req = ret.req])
            /\ ret.info => /\ Len(ret.call.log) = Len(CreateOrder(Requests[ret.req].Gid))
                           /\ \A i \in 1..Len(ret.call.log) : ret.call.log[i].ok

\* C17, its case: a create with gid 0 returned after six commands, and the
\* next create, with another gid, returned after eight
C17_Witness ==
    /\ AtReturn
    /\ ret.kind = "create"
    /\ ret.info
    /\ Requests[ret.req].Gid # 0
    /\ LogHas(ret.call.log, "chown") /\ LogHas(ret.call.log, "chmod")
    /\ prevRet.kind = "create"
    /\ prevRet.info
    /\ Requests[prevRet.req].Gid = 0
\* the device node of the logical volume that the create of this request makes
\* with lvcreate, and that its destroy removes: <vg>/<LvName>
LvDevice(brick) == DevNodeOf(VgIdToName(brick.VgId), brick.LvName)

\* the device the call's create batch hands to this command
DeviceOf(o, c) ==
    LET cmds == CreateCommands(Brick(o))
    IN  cmds[CHOOSE i \in 1..Len(cmds) : cmds[i].c = c].x

\* C18 (as claimed): the device a create formats, writes to the table and
\* mounts is the device node of the logical volume its lvcreate makes, the node
\* of <vg>/<LvName>, for every request that passes the checks.
C18_DeviceIsLv ==
    \A w \in Workers :
        \A c \in {"mkfs", "fstab", "mount"} :
            (op[w].pc # "idle" /\ LogHas(op[w].log, c))
                => DeviceOf(op[w], c) = LvDevice(Brick(op[w]))
\* the message says "not found" or "failed to find", in any case of letters
AbsentMessage(msg) ==
    Contains(ToLower(msg), <<"n","o","t"," ","f","o","u","n","d">>)
        \/ Contains(ToLower(msg), <<"f","a","i","l","e","d"," ","t","o"," ","f","i","n","d">>)

\* the destroy of this call is beyond the removal of the logical volume
PastLvRemove(o) == o.pc \in {"count", "poolremove", "rmdir"}

\* C19: when lvremove fails with an absent error destroy goes on to the
\* thin-count query; when it fails with any other error destroy returns that
\* error and spaceReclaimed = false and dispatches no thin-count query, no pool
\* removal and no rmdir.
C19_LvRemoveErrors ==
    /\ \A w \in Workers :
         (PastLvRemove(op[w]) /\ op[w].lvErr.isErr) => AbsentMessage(op[w].lvErr.msg)
    /\ \A w \in Workers :
         (op[w].pc = "count" /\ CmdFailed(op[w].log, "lvremove")) => op[w].lvErr.isErr
    /\ (ret.d.done /\ CmdFailed(ret.call.log, "lvremove"))
         => /\ ret.call.lvErr.isErr
            /\ IF AbsentMessage(ret.call.lvErr.msg)
               THEN LogHas(ret.call.log, "lvs")
               ELSE /\ ret.d.err = ret.call.lvErr
                    /\ ~ret.d.reclaimed
                    /\ ~LogHas(ret.call.log, "lvs")
                    /\ ~LogHas(ret.call.log, "poolremove")
                    /\ ~LogHas(ret.call.log, "rmdir")

\* C19, its case: the volume was not there, lvremove said "Failed to find ..",
\* and destroy went on to the thin-count query and returned
C19_Witness ==
    /\ AtReturn
    /\ ret.kind = "destroy"
    /\ ret.call.lvErr = Err(MsgLvAbsent)
    /\ LogHas(ret.call.log, "lvs")
    /\ ret.d.done
\* C20: when the thin-count query fails with an absent error destroy takes the
\* count for zero and goes on to the pool removal; on every other failure of the
\* query, an output that is no integer included, destroy returns an error that
\* names the pool and the host, and spaceReclaimed = false, and dispatches
\* neither the pool removal nor the rmdir. The pool removal is reached only
\* after an absent error or with a pool that holds no thin volume.
C20_CountErrors ==
    /\ \A w \in Workers :
         /\ (op[w].pc \in {"poolremove", "rmdir"} /\ op[w].countErr.isErr)
               => AbsentMessage(op[w].countErr.msg) /\ op[w].thinCount = 0
         /\ op[w].pc = "poolremove"
               => \/ CmdFailed(op[w].log, "lvs") /\ AbsentMessage(op[w].countErr.msg)
                  \/ PoolExists(host, Brick(op[w])) /\ PoolVolumes(host, Brick(op[w])) = {}
    /\ (ret.d.done /\ ret.call.countErr.isErr)
         => IF AbsentMessage(ret.call.countErr.msg)
            THEN ret.call.thinCount = 0 /\ LogHas(ret.call.log, "poolremove")
            ELSE /\ ret.d.err.isErr
                 /\ Contains(ret.d.err.msg, VgIdToName(Requests[ret.req].VgId) \o <<"/">>
                                            \o Requests[ret.req].TpName)
                 /\ Contains(ret.d.err.msg, Requests[ret.req].Host)
                 /\ ~ret.d.reclaimed
                 /\ ~LogHas(ret.call.log, "poolremove")
                 /\ ~LogHas(ret.call.log, "rmdir")

\* C20, its case: the query printed no integer (TpName names a volume that is
\* no pool), and destroy returned the error that names pool and host
C20_Witness ==
    /\ AtReturn
    /\ ret.kind = "destroy"
    /\ \E i \in 1..Len(ret.call.log) : ret.call.log[i] = [c |-> "lvs", ok |-> TRUE]
    /\ ret.call.countErr.isErr
    /\ ret.err = Err(MsgCountPrefix \o VgIdToName(Requests[ret.req].VgId) \o <<"/">>
                     \o Requests[ret.req].TpName \o MsgOnHost \o Requests[ret.req].Host)
\* C21: after a pool removal (dispatched when the thin count is zero) destroy
\* always goes on to the rmdir and returns a nil error, whatever the pool
\* removal and the rmdir returned; spaceReclaimed is true when the pool removal
\* succeeded or reported the pool absent, false on any other error of it.
C21_PoolAndRmdirErrors ==
    /\ \A w \in Workers :
         (op[w].pc = "rmdir" /\ LogHas(op[w].log, "poolremove"))
            => /\ op[w].thinCount = 0
               /\ op[w].spaceReclaimed
                    = (~op[w].poolErr.isErr \/ AbsentMessage(op[w].poolErr.msg))
    /\ (ret.d.done /\ LogHas(ret.call.log, "poolremove"))
         => /\ ret.call.thinCount = 0
            /\ LogHas(ret.call.log, "rmdir")
            /\ ~ret.d.err.isErr
            /\ ret.d.reclaimed
                 = (~ret.call.poolErr.isErr \/ AbsentMessage(ret.call.poolErr.msg))
            /\ CmdFailed(ret.call.log, "poolremove") = ret.call.poolErr.isErr
    /\ (ret.d.done /\ LogHas(ret.call.log, "rmdir")) => ~ret.d.err.isErr

\* C21, its case: the pool removal failed with an error that is no absent
\* error, the rmdir was dispatched and failed too, and destroy returned
\* (false, nil)
C21_Witness ==
    /\ AtReturn
    /\ ret.kind = "destroy"
    /\ ret.call.poolErr.isErr
    /\ ~AbsentMessage(ret.call.poolErr.msg)
    /\ CmdFailed(ret.call.log, "rmdir")
    /\ ~ret.reclaimed
    /\ ~ret.err.isErr

\* a create of request r returned a BrickInfo in one of the last two calls
CreatedOf(r) ==
    \/ ret.kind = "create" /\ ret.req = r /\ ret.info
    \/ prevRet.kind = "create" /\ prevRet.req = r /\ prevRet.info

\* C22: calls on different bricks that overlap lose no entry of the persistent
\* table. Once every call has returned, the table holds exactly one line, the
\* brick's complete line, for every brick whose create succeeded (no call here
\* destroys such a brick).
C22_NoLostEntry ==
    AtReturn =>
        \A r \in ConcCreateRequests :
            CreatedOf(r) =>
                \E i \in 1..Len(host.fstab) :
                    /\ host.fstab[i] = FstabLine(BrickDevNode(Requests[r].VgId, Requests[r].Name),
                                                 BrickMountFromPath(Requests[r].Path))
                    /\ BrickLines(host, Requests[r]) = {i}

\* C23: no interleaving of the commands of overlapping calls removes a thin pool
\* that holds a thin volume at the moment of the removal.
C23_NoPoolWithVolumeRemoved ==
    [][\A q \in host.pools \ host'.pools :
          \A l \in host.lvs : ~(l.vg = q.vg /\ l.pool = q.tp)]_vars

\* the lines of table t that are not lines of table u
LinesGone(t, u) == {i \in 1..Len(t) : \A j \in 1..Len(u) : u[j] # t[i]}

\* C24: the table removal of a destroy removes only lines of the brick being
\* destroyed: every line that leaves the table names that brick's device.
C24_OnlyOwnLines ==
    [][\A w \in Workers :
          op[w].pc = "fstab" =>
              \A i \in LinesGone(host.fstab, host'.fstab) :
                  LineDevice(host.fstab[i])
                      = BrickDevNode(Brick(op[w]).VgId, Brick(op[w]).Name)]_vars

\* C25: destroy returns space_reclaimed = true only with a nil error and only
\* after the pool removal was dispatched and ended in success or in the pool
\* being absent; a return with an error carries space_reclaimed = false.
C25_ReclaimedOnlyAfterPool ==
    /\ (ret.d.done /\ ret.d.reclaimed)
          => /\ ~ret.d.err.isErr
             /\ LogHas(ret.call.log, "poolremove")
             /\ \/ ~CmdFailed(ret.call.log, "poolremove")
                \/ AbsentMessage(ret.call.poolErr.msg)
    /\ (ret.d.done /\ ret.d.err.isErr) => ~ret.d.reclaimed
    /\ (ret.kind = "destroy") => (ret.reclaimed = ret.d.reclaimed /\ ret.err = ret.d.err)
    /\ \A w \in Workers : op[w].spaceReclaimed => LogHas(op[w].log, "poolremove")

\* a destroy returned (true, nil) after its pool removal found the pool absent
C25_Witness ==
    /\ AtReturn
    /\ ret.kind = "destroy"
    /\ ret.reclaimed
    /\ ~ret.err.isErr
    /\ CmdFailed(ret.call.log, "poolremove")
    /\ AbsentMessage(ret.call.poolErr.msg)

====
